---------------------------- MODULE Spec2Model ----------------------------
(***************************************************************************)
(* GeoBases, SourcesAdminModule.py: the path-resolution pipeline of        *)
(* SourcesAdmin (handle_path, download_lazy, extract_lazy, is_older,       *)
(* is_remote, is_archive) run against a file system, one call at a time   *)
(* and two calls system call by system call, the normalisation of path     *)
(* specifications (convert_paths_format), and the registry of sources      *)
(* (add, update, drop).                                                    *)
(*                                                                         *)
(* A Python string is a sequence of one-character strings, so that         *)
(* lower(), startswith(), os.path.join, basename, dirname and normpath are *)
(* computed character by character as posixpath computes them.             *)
(***************************************************************************)
EXTENDS Integers, Sequences, FiniteSets, TLC

\* ------------------------------------------------------------------ bounds

\* The clock (and so every modification time) runs over 0..MaxTime.
MaxTime == 2
\* The per-basename count of completed transfers saturates at MaxCount.
MaxCount == 2
\* convert_paths_format is applied to lists of at most MaxLen elements.
MaxLen == 2

\* ----------------------------------------------------------------- strings

Empty == << >>
Sep == <<"/">>

\* str.lower() on the alphabet of the model.
lower_char(c) ==
    CASE c = "H" -> "h"
      [] c = "T" -> "t"
      [] c = "P" -> "p"
      [] c = "S" -> "s"
      [] OTHER -> c

lower(s) == [i \in 1..Len(s) |-> lower_char(s[i])]

startswith(s, p) == Len(s) >= Len(p) /\ SubSeq(s, 1, Len(p)) = p

endswith(s, p) == Len(s) >= Len(p) /\ SubSeq(s, Len(s) - Len(p) + 1, Len(s)) = p

\* The index of the last slash of s at or before i, 0 when there is none.
RECURSIVE rfind_from(_, _)
rfind_from(s, i) ==
    IF i = 0 THEN 0 ELSE IF s[i] = "/" THEN i ELSE rfind_from(s, i - 1)

\* s.rfind('/') + 1
rfind_sep(s) == rfind_from(s, Len(s))

\* s.rstrip('/')
RECURSIVE rstrip_sep(_)
rstrip_sep(s) ==
    IF s # Empty /\ s[Len(s)] = "/" THEN rstrip_sep(SubSeq(s, 1, Len(s) - 1)) ELSE s

\* '/'.join(comps)
RECURSIVE join_sep(_)
join_sep(comps) ==
    IF comps = << >> THEN Empty
    ELSE IF Len(comps) = 1 THEN comps[1]
    ELSE comps[1] \o Sep \o join_sep(Tail(comps))

\* ------------------------------------------------------------ posixpath

\* os.path.join(a, b): an absolute b discards a.
join(a, b) ==
    IF startswith(b, Sep) THEN b
    ELSE IF a = Empty \/ endswith(a, Sep) THEN a \o b
    ELSE a \o Sep \o b

\* os.path.basename(p)
basename(p) == SubSeq(p, rfind_sep(p) + 1, Len(p))

\* os.path.dirname(p)
dirname(p) ==
    LET head == SubSeq(p, 1, rfind_sep(p))
    IN  IF head # Empty /\ \E i \in 1..Len(head) : head[i] # "/"
        THEN rstrip_sep(head) ELSE head

\* One step of the component loop of os.path.normpath: '' and '.' are
\* dropped, '..' pops the component before it (at the root it is dropped).
norm_push(comps, c) ==
    IF c = Empty \/ c = <<".">> THEN comps
    ELSE IF c = <<".", ".">> /\ comps # << >> /\ comps[Len(comps)] # <<".", ".">>
    THEN SubSeq(comps, 1, Len(comps) - 1)
    ELSE IF c = <<".", ".">> /\ comps = << >> THEN comps
    ELSE Append(comps, c)

\* p.split('/') and the component loop in one pass over p from index i: comps
\* are the components kept, cur the component being read.
RECURSIVE norm_scan(_, _, _, _)
norm_scan(p, i, comps, cur) ==
    IF i > Len(p) THEN norm_push(comps, cur)
    ELSE IF p[i] = "/" THEN norm_scan(p, i + 1, norm_push(comps, cur), Empty)
    ELSE norm_scan(p, i + 1, comps, Append(cur, p[i]))

\* os.path.normpath(p) for the absolute paths and the relative paths without
\* leading '..' that the model forms.
normpath(p) ==
    IF p = Empty THEN <<".">>
    ELSE LET body == join_sep(norm_scan(p, 1, << >>, Empty))
         IN  IF p[1] = "/" THEN Sep \o body
             ELSE IF body = Empty THEN <<".">> ELSE body

\* The working directory of the process.
Cwd == <<"/", "w">>

\* os.path.realpath(p) on a file system without symbolic links: abspath(p).
realpath(p) == normpath(join(Cwd, p))

\* ------------------------------------------------------- values and inputs

\* Python's None and a present value, as one record shape.
None == [some |-> FALSE, v |-> Empty]
Some(x) == [some |-> TRUE, v |-> x]

\* self.cache_dir
CacheDir == <<"/", "c">>

\* Local files a path specification may name: an archive that exists and one
\* that does not.
L1 == <<"/", "d", "/", "a", ".", "z">>
L2 == <<"/", "d", "/", "n", ".", "z">>

\* Remote resources: two URLs with the same basename, one with an upper-case
\* scheme.
U1 == <<"h", "t", "t", "p", ":", "/", "/", "h", "/", "a", ".", "z">>
U2 == <<"H", "T", "T", "P", "S", ":", "/", "/", "g", "/", "a", ".", "z">>

Urls == {U1, U2}

\* The archive the first URL's download leaves in the cache directory.
CachedZip == <<"/", "c", "/", "a", ".", "z">>

\* Member names: flat, with subdirectories, and one no archive contains.
M_c == <<"c">>
M_sc == <<"s", "/", "c">>
M_ssc == <<"s", "/", "s", "/", "c">>
M_x == <<"x">>

Members == {M_c, M_sc, M_ssc, M_x}

\* ZipFile.namelist() of every archive of the model.
ZipNames == {M_c, M_sc, M_ssc}

\* What a regular file holds: the resource (src) it was copied from, the
\* archive member (mem, Empty for the whole resource), and whether the copy
\* was cut short (part).
Data(src, mem, part) == [src |-> src, mem |-> mem, part |-> part]

NoData == Data(Empty, Empty, FALSE)

FileEntry(d, t) == [kind |-> "file", data |-> d, mtime |-> t]

DirEntry == [kind |-> "dir", data |-> NoData, mtime |-> 0]

\* The outcomes of one HTTP transfer: the connection fails before the target
\* file is opened, the transfer breaks after it was opened, or it completes.
NetOutcomes == {"ok", "refused", "broken"}

\* ------------------------------------------------------------ file system

\* A file system f maps each normalised path that exists to its entry; a
\* system call resolves the path it is given.
Missing == [kind |-> "none", data |-> NoData, mtime |-> 0]

lookup(f, p) == LET k == normpath(p) IN IF k \in DOMAIN f THEN f[k] ELSE Missing

exists(f, p) == lookup(f, p).kind # "none"

\* os.path.isfile(p)
isfile(f, p) == lookup(f, p).kind = "file"

isdir(f, p) == lookup(f, p).kind = "dir"

\* p :> e overriding f.
put(f, p, e) == [q \in DOMAIN f \cup {p} |-> IF q = p THEN e ELSE f[q]]

\* open(p, 'wb') succeeds when p is not a directory and its parent is one.
can_open_wb(f, p) == ~isdir(f, p) /\ isdir(f, dirname(normpath(p)))

\* open(p, 'wb'); write; close at time t.
write_file(f, p, d, t) == put(f, normpath(p), FileEntry(d, t))

\* os.makedirs(d) raises OSError when a path on the way is a regular file.
RECURSIVE makedirs_blocked(_, _)
makedirs_blocked(f, d) ==
    IF d = Empty \/ d = Sep THEN FALSE
    ELSE IF exists(f, d) THEN isfile(f, d)
    ELSE makedirs_blocked(f, dirname(d))

\* os.makedirs(d): d and every missing directory above it.
RECURSIVE makedirs(_, _)
makedirs(f, d) ==
    IF d = Empty \/ d = Sep \/ exists(f, d) THEN f
    ELSE put(makedirs(f, dirname(d)), d, DirEntry)

\* ---------------------------------------------------------- PathClassifier

R_PREFIXES ==
    { <<"h", "t", "t", "p", ":", "/", "/">>,
      <<"h", "t", "t", "p", "s", ":", "/", "/">> }

\* Mutant: the prefix is compared without lower().
has_prefix_case_sensitive(path, prefixes) == \E p \in prefixes : startswith(path, p)

has_prefix(path, prefixes) == \E p \in prefixes : startswith(lower(path), p)

is_remote(path) == has_prefix(path.file, R_PREFIXES)

is_archive(path) == "extract" \in DOMAIN path

\* --------------------------------------------------------- FreshnessOracle

\* Mutant: a stat failure is answered "older".
is_older_true_on_error(f, a, b) ==
    LET sa == lookup(f, a)
        sb == lookup(f, b)
    IN  IF sa.kind # "none" /\ sb.kind # "none" THEN sa.mtime < sb.mtime ELSE TRUE

\* os.stat raises OSError on a path that does not exist; is_older swallows it.
is_older(f, a, b) ==
    LET sa == lookup(f, a)
        sb == lookup(f, b)
    IN  IF sa.kind # "none" /\ sb.kind # "none" THEN sa.mtime < sb.mtime ELSE FALSE

\* ------------------------------------------------------------ CacheFetcher

\* urllib.urlretrieve(url, filename) at time t under transfer outcome net:
\* the connection is opened first, then the target file, then the blocks are
\* copied.  Every failure is an IOError; a broken transfer leaves the part of
\* the file already written.
urlretrieve(f, url, filename, net, t) ==
    IF net = "refused" \/ ~can_open_wb(f, filename)
    THEN [exc |-> "IOError", path |-> None, fs |-> f]
    ELSE IF net = "broken"
    THEN [exc |-> "IOError", path |-> None,
          fs |-> write_file(f, filename, Data(url, Empty, TRUE), t)]
    ELSE [exc |-> "", path |-> Some(filename),
          fs |-> write_file(f, filename, Data(url, Empty, FALSE), t)]

\* Mutant: the cache test asks for a directory.
download_cached_isdir(f, filename_test) == isdir(f, filename_test)

\* The cache test of download_lazy.
download_cached(f, filename_test) == isfile(f, filename_test)

\* download_lazy after urlretrieve returned or raised (got).
download_result(filename_test, got) ==
    IF got.exc = "IOError"
    THEN [called |-> TRUE, target |-> filename_test, transfer |-> TRUE,
          path |-> None, success |-> FALSE, fs |-> got.fs]
    ELSE [called |-> TRUE, target |-> filename_test, transfer |-> TRUE,
          path |-> got.path, success |-> TRUE, fs |-> got.fs]

\* download_lazy once filename_test is computed.
download_lazy_to(f, resource, filename_test, net, t) ==
    IF download_cached(f, filename_test)
    THEN [called |-> TRUE, target |-> filename_test, transfer |-> FALSE,
          path |-> Some(filename_test), success |-> TRUE, fs |-> f]
    ELSE download_result(filename_test, urlretrieve(f, resource, filename_test, net, t))

\* download_lazy(resource, cache_dir): transfer tells whether urlretrieve ran.
download_lazy(f, resource, cache_dir, net, t) ==
    download_lazy_to(f, resource, join(cache_dir, basename(resource)), net, t)

\* ---------------------------------------------------------- CacheExtractor

\* A file ZipFile() can read: a whole, complete copy of an archive resource.
is_zipfile(d) == d.mem = Empty /\ ~d.part

\* Mutant: the member is reported as extracted and nothing is written.
zip_copy_no_write(f2, zf, member, targetpath, t) ==
    IF ~can_open_wb(f2, targetpath)
    THEN [exc |-> "IOError", path |-> None, fs |-> f2]
    ELSE [exc |-> "", path |-> Some(targetpath), fs |-> f2]

\* ZipFile._extract_member once the directories above targetpath exist in f2:
\* the member is copied to targetpath.
zip_copy(f2, zf, member, targetpath, t) ==
    IF ~can_open_wb(f2, targetpath)
    THEN [exc |-> "IOError", path |-> None, fs |-> f2]
    ELSE [exc |-> "", path |-> Some(targetpath),
          fs |-> write_file(f2, targetpath, Data(zf.data.src, member, FALSE), t)]

\* ZipFile._extract_member: the directories above targetpath are created when
\* missing (os.makedirs raises OSError).
zip_extract_member(f, zf, member, targetpath, upperdirs, t) ==
    IF upperdirs # Empty /\ ~exists(f, upperdirs)
    THEN IF makedirs_blocked(f, upperdirs)
         THEN [exc |-> "OSError", path |-> None, fs |-> f]
         ELSE zip_copy(makedirs(f, upperdirs), zf, member, targetpath, t)
    ELSE zip_copy(f, zf, member, targetpath, t)

\* ZipFile(archive), whose stat is zf, and getinfo(member): ZipFile() raises
\* IOError when the archive cannot be opened and BadZipfile when it is no
\* archive; getinfo() raises KeyError for an unknown member.
zip_open(f, zf, member, targetpath, t) ==
    IF zf.kind # "file"
    THEN [exc |-> "IOError", path |-> None, fs |-> f]
    ELSE IF ~is_zipfile(zf.data)
    THEN [exc |-> "BadZipfile", path |-> None, fs |-> f]
    ELSE IF member \notin ZipNames
    THEN [exc |-> "KeyError", path |-> None, fs |-> f]
    ELSE zip_extract_member(f, zf, member, targetpath, dirname(targetpath), t)

\* ZipFile(archive).extract(member, path) at time t: the member is written at
\* normpath(join(path, member)).
zip_extract(f, archive, member, path, t) ==
    zip_open(f, lookup(f, archive), member, normpath(join(path, member)), t)

\* The directory extract_lazy hands to ZipFile.extract.
extract_dir(filename_test) == dirname(filename_test)

\* The cache test of extract_lazy: the target is there and the archive is older.
extract_cached(f, archive, filename_test) ==
    isfile(f, filename_test) /\ is_older(f, archive, filename_test)

\* extract_lazy, entered with file system f, after ZipFile.extract returned or
\* raised (got): IOError alone is caught, any other exception (exc) escapes.
extract_result(f, archive, filename_test, got) ==
    IF got.exc = "IOError"
    THEN [called |-> TRUE, archive |-> archive, target |-> filename_test,
          extracted |-> TRUE, path |-> None, success |-> FALSE,
          exc |-> "", fs0 |-> f, fs |-> got.fs]
    ELSE IF got.exc # ""
    THEN [called |-> TRUE, archive |-> archive, target |-> filename_test,
          extracted |-> TRUE, path |-> None, success |-> FALSE,
          exc |-> got.exc, fs0 |-> f, fs |-> got.fs]
    ELSE [called |-> TRUE, archive |-> archive, target |-> filename_test,
          extracted |-> TRUE, path |-> got.path, success |-> TRUE,
          exc |-> "", fs0 |-> f, fs |-> got.fs]

\* extract_lazy once filename_test is computed.
extract_lazy_to(f, archive, filename, filename_test, t) ==
    IF extract_cached(f, archive, filename_test)
    THEN [called |-> TRUE, archive |-> archive, target |-> filename_test,
          extracted |-> FALSE, path |-> Some(filename_test), success |-> TRUE,
          exc |-> "", fs0 |-> f, fs |-> f]
    ELSE extract_result(f, archive, filename_test,
                        zip_extract(f, archive, filename, extract_dir(filename_test), t))

\* extract_lazy(archive, filename, cache_dir): extracted tells whether
\* ZipFile.extract ran.
extract_lazy(f, archive, filename, cache_dir, t) ==
    extract_lazy_to(f, archive, filename, join(cache_dir, filename), t)

\* ------------------------------------------------------------ PathResolver

\* The stage that was not entered.
NoFetch ==
    [called |-> FALSE, target |-> Empty, transfer |-> FALSE, path |-> None,
     success |-> FALSE, fs |-> << >>]

NoExtract ==
    [called |-> FALSE, archive |-> Empty, target |-> Empty, extracted |-> FALSE,
     path |-> None, success |-> FALSE, exc |-> "", fs0 |-> << >>, fs |-> << >>]

\* handle_path after extract_lazy returned or raised (ex).
handle_extracted(dl, ex) ==
    IF ex.exc # "" \/ ~ex.success
    THEN [ret |-> None, exc |-> ex.exc, dl |-> dl, ex |-> ex, fs |-> ex.fs]
    ELSE [ret |-> ex.path, exc |-> "", dl |-> dl, ex |-> ex, fs |-> ex.fs]

\* handle_path from "if is_archive(path)" on: file_ is the working file.
handle_file(f, path, cache_dir, dl, file_, t) ==
    IF is_archive(path)
    THEN handle_extracted(dl, extract_lazy(f, file_.v, path.extract, cache_dir, t))
    ELSE [ret |-> file_, exc |-> "", dl |-> dl, ex |-> NoExtract, fs |-> f]

\* Mutant: the success flag of download_lazy is not tested.
handle_downloaded_unchecked(path, cache_dir, dl, t) ==
    handle_file(dl.fs, path, cache_dir, dl, dl.path, t)

\* handle_path after download_lazy returned (dl).
handle_downloaded(path, cache_dir, dl, t) ==
    IF ~dl.success
    THEN [ret |-> None, exc |-> "", dl |-> dl, ex |-> NoExtract, fs |-> dl.fs]
    ELSE handle_file(dl.fs, path, cache_dir, dl, dl.path, t)

\* Mutant: every specification is downloaded, the is_remote test is lost.
handle_path_always_remote(f, path, cache_dir, net, t) ==
    handle_downloaded(path, cache_dir,
                      download_lazy(f, path.file, cache_dir, net, t), t)

\* SourcesAdmin.handle_path(path, verbose): ret is the value returned (None
\* for a bare return), exc the exception that escapes, dl and ex what the two
\* stages did.
handle_path(f, path, cache_dir, net, t) ==
    IF ~is_remote(path)
    THEN handle_file(f, path, cache_dir, NoFetch, Some(path.file), t)
    ELSE handle_downloaded(path, cache_dir,
                           download_lazy(f, path.file, cache_dir, net, t), t)

\* ---------------------------------------------------------- SpecNormalizer

\* The files of the path specifications given to convert_paths_format: a
\* relative path, an absolute path, the two URLs, and a path that only
\* resembles a URL.
F_rel == <<"a">>
F_abs == <<"/", "b">>
F_like == <<"h", "t", "t", "p">>

NFiles == {F_rel, F_abs, F_like, U1, U2}

\* One element of the input: a bare string is [str |-> s], a dict is the
\* record of its keys.
Items ==
    {[str |-> x] : x \in NFiles}
    \cup {[file |-> x] : x \in NFiles}
    \cup {[file |-> x, extract |-> M_c] : x \in NFiles}

is_str(path) == "str" \in DOMAIN path

NoItem == [file |-> Empty]

\* The values of the argument paths: None, one string, one dict, or a list;
\* and of the result: None or a tuple.
NonePaths == [kind |-> "none", item |-> NoItem, list |-> << >>]
OnePath(x) == [kind |-> IF is_str(x) THEN "str" ELSE "dict", item |-> x, list |-> << >>]
ListPaths(l) == [kind |-> "list", item |-> NoItem, list |-> l]
TuplePaths(l) == [kind |-> "tuple", item |-> NoItem, list |-> l]

ListsUpTo(n) == UNION {[1..k -> Items] : k \in 0..n}

RawPaths ==
    {NonePaths} \cup {OnePath(x) : x \in Items}
    \cup {ListPaths(l) : l \in ListsUpTo(MaxLen)}

\* self.sources_dir: absolute, or relative to the working directory.
SourcesDirs == {<<"/", "d">>, <<"d">>}

\* "paths = [paths]" for one string or one dict.
as_list(paths) ==
    IF paths.kind \in {"str", "dict"} THEN <<paths.item>> ELSE paths.list

\* The first loop: a string becomes a dict.
as_dict(path) == IF is_str(path) THEN [file |-> path.str] ELSE path

\* The test of the second loop.
must_anchor(path, local) == ~is_remote(path) /\ local

\* Mutant: the file is appended to the directory whatever it is.
anchor_appended(path, local, sources_dir) ==
    IF must_anchor(path, local)
    THEN [path EXCEPT !.file = realpath(sources_dir) \o Sep \o path.file]
    ELSE path

\* The second loop: a local path is made relative to the sources directory.
anchor(path, local, sources_dir) ==
    IF must_anchor(path, local)
    THEN [path EXCEPT !.file = join(realpath(sources_dir), path.file)]
    ELSE path

\* Mutant: the elements come out in reverse order.
convert_list_reversed(l, local, sources_dir) ==
    [i \in 1..Len(l) |-> anchor(as_dict(l[Len(l) + 1 - i]), local, sources_dir)]

\* The two loops over the list l, in order.
convert_list(l, local, sources_dir) ==
    [i \in 1..Len(l) |-> anchor(as_dict(l[i]), local, sources_dir)]

\* SourcesAdmin.convert_paths_format(paths, local)
convert_paths_format(paths, local, sources_dir) ==
    IF paths.kind = "none" THEN NonePaths
    ELSE TuplePaths(convert_list(as_list(paths), local, sources_dir))

\* No second call was made.
NoSecond == [of |-> "none", first |-> NonePaths, result |-> NonePaths]

\* The argument after the call: a list was converted in place, a dict was
\* anchored in place, a string is immutable.
mutated(paths, local, sources_dir) ==
    IF paths.kind = "list"
    THEN ListPaths(convert_list(paths.list, local, sources_dir))
    ELSE IF paths.kind = "dict"
    THEN OnePath(anchor(paths.item, local, sources_dir))
    ELSE paths

\* ------------------------------------------------------------------- state

VARIABLES
    fs,         \* the file system: normalised path -> entry
    now,        \* the clock that stamps modification times
    last,       \* what the most recent call did, and how it relates to the one before
    completed,  \* per URL basename, the transfers that completed (up to MaxCount)
    npaths,     \* convert_paths_format: the argument paths as it was given
    nlocal,     \*   the argument local
    ndir,       \*   self.sources_dir
    nafter,     \*   the argument object after the call
    nresult,    \*   the value returned
    ncalls,     \*   the number of calls made (0, 1 or 2)
    nsecond,    \*   the second call: its argument, the first result, its result
    pspec,      \* two concurrent handle_path calls: the specification of each
    pnet,       \*   the outcome of its transfer
    pc,         \*   the system call it is about to make
    pfile,      \*   its working file (file_, archive)
    pret,       \*   what it returned (ret) or raised (exc)
    sources,    \* self.sources: source name -> configuration
    rlast       \* the most recent call on the registry and the registry before it

cvars == <<fs, now, last, completed>>

nvars == <<npaths, nlocal, ndir, nafter, nresult, ncalls, nsecond>>

pvars == <<pspec, pnet, pc, pfile, pret>>

rvars == <<sources, rlast>>

vars == <<fs, now, last, completed, npaths, nlocal, ndir, nafter, nresult, ncalls,
          nsecond, pspec, pnet, pc, pfile, pret, sources, rlast>>

\* The two callers of handle_path that run concurrently.
Procs == {1, 2}

\* A call that has not returned.
NoReturn == [ret |-> None, exc |-> ""]

\* The configuration None.
NoConfig == [none |-> TRUE, opts |-> << >>]

\* No call was made on the registry.
NoRegistryCall ==
    [op |-> "none", source |-> "", config |-> NoConfig, before |-> << >>, exc |-> ""]

Basenames == {basename(u) : u \in Urls}

\* The path specifications handle_path is called with.
Files == {L1, L2, U1}

\* The members they ask for: a flat one, one in a subdirectory, a missing one.
SpecMembers == {M_c, M_sc, M_x}

Specs == {[file |-> x] : x \in Files}
         \cup {[file |-> x, extract |-> m] : x \in Files, m \in SpecMembers}

\* The archives extract_lazy is called with directly: the local archive, one
\* that does not exist, and a file that is no archive (an extracted member).
Archives == {L1, L2, join(CacheDir, M_c)}

dl_view(d) ==
    [called |-> d.called, target |-> d.target, transfer |-> d.transfer,
     path |-> d.path, success |-> d.success]

ex_view(e) ==
    [called |-> e.called, archive |-> e.archive, target |-> e.target,
     extracted |-> e.extracted, path |-> e.path, success |-> e.success,
     exc |-> e.exc]

\* os.stat of the archive, None when it fails.
stat_of(f, p) ==
    LET st == lookup(f, p) IN IF st.kind # "none" THEN Some(<<st.mtime>>) ELSE None

\* How the cache stands when extract_lazy is entered: the target is absent,
\* or it is a file and the archive's modification time is earlier, the same
\* or later, or the archive cannot be stat'ed.
cache_state(f, archive, target) ==
    LET sa == lookup(f, archive)
        st == lookup(f, target)
    IN  IF st.kind # "file" THEN "absent"
        ELSE IF sa.kind = "none" THEN "nostat"
        ELSE IF sa.mtime < st.mtime THEN "older"
        ELSE IF sa.mtime = st.mtime THEN "same"
        ELSE "newer"

\* The paths whose entry a call changed, created or removed.
touched_paths(f, g) ==
    {p \in DOMAIN f \cup DOMAIN g :
        \/ p \notin DOMAIN f
        \/ p \notin DOMAIN g
        \/ f[p] # g[p]}

\* The record of one call: op(file, extract) ran the stages dl and ex, returned
\* ret or let exc escape, and took the file system from f to g.  pre is the
\* cache state the extraction stage found, touched the paths the call changed,
\* newer whether the file it returned is newer than the archive.  rep says
\* that the call before it was the same call; then p_* are that call's
\* results and unchanged says the archive's stat is what that call left.
call_record(op, file, hasx, member, r, f, g) ==
    LET rep == last.op = op /\ last.file = file /\ last.hasx = hasx
               /\ last.extract = member
        arch == IF r.ex.called THEN r.ex.archive ELSE Empty
    IN  [op |-> op, file |-> file, hasx |-> hasx, extract |-> member,
         dl |-> dl_view(r.dl), ex |-> ex_view(r.ex),
         ret |-> r.ret, exc |-> r.exc,
         pre |-> IF r.ex.called THEN cache_state(r.ex.fs0, arch, r.ex.target)
                 ELSE "none",
         touched |-> touched_paths(f, g),
         astat |-> IF r.ex.called THEN stat_of(g, arch) ELSE None,
         newer |-> r.ex.called /\ r.ex.success /\ is_older(g, arch, r.ex.path.v),
         rep |-> rep,
         p_transfer |-> rep /\ last.dl.transfer,
         p_ok |-> rep /\ last.exc = "" /\ last.ret.some,
         p_ret |-> IF rep THEN last.ret ELSE None,
         p_extracted |-> rep /\ last.ex.extracted,
         p_newer |-> rep /\ last.newer,
         unchanged |-> rep /\ r.ex.called /\ last.ex.called
                       /\ last.ex.archive = arch /\ last.astat = stat_of(f, arch)]

NoCall ==
    [op |-> "none", file |-> Empty, hasx |-> FALSE, extract |-> Empty,
     dl |-> dl_view(NoFetch), ex |-> ex_view(NoExtract),
     ret |-> None, exc |-> "", pre |-> "none", touched |-> {}, astat |-> None,
     newer |-> FALSE, rep |-> FALSE,
     p_transfer |-> FALSE, p_ok |-> FALSE, p_ret |-> None,
     p_extracted |-> FALSE, p_newer |-> FALSE, unchanged |-> FALSE]

\* The cache directory is empty; the local archive L1 exists, L2 does not.
InitFs ==
    [p \in {CacheDir, dirname(L1), L1} |->
        IF p = L1 THEN FileEntry(Data(L1, Empty, FALSE), 0) ELSE DirEntry]

Init ==
    /\ fs = InitFs
    /\ now = 0
    /\ last = NoCall
    /\ completed = [b \in Basenames |-> 0]
    /\ npaths = NonePaths
    /\ nlocal = FALSE
    /\ ndir = Empty
    /\ nafter = NonePaths
    /\ nresult = NonePaths
    /\ ncalls = 0
    /\ nsecond = NoSecond
    /\ pspec = [i \in Procs |-> NoItem]
    /\ pnet = [i \in Procs |-> "ok"]
    /\ pc = [i \in Procs |-> "idle"]
    /\ pfile = [i \in Procs |-> None]
    /\ pret = [i \in Procs |-> NoReturn]
    /\ sources = << >>
    /\ rlast = NoRegistryCall

\* A transfer that completed is counted under the basename of its URL.
count(dl, url) ==
    IF dl.called /\ dl.transfer /\ dl.success /\ completed[basename(url)] < MaxCount
    THEN [completed EXCEPT ![basename(url)] = @ + 1]
    ELSE completed

\* Time passes.
Tick ==
    /\ now < MaxTime
    /\ now' = now + 1
    /\ UNCHANGED <<fs, last, completed, nvars, pvars, rvars>>

\* The local archive is modified by its owner: its modification time is now.
Touch ==
    /\ fs[L1].mtime < now
    /\ fs' = [fs EXCEPT ![L1].mtime = now]
    /\ UNCHANGED <<now, last, completed, nvars, pvars, rvars>>

\* download_lazy(url, cache_dir)
Fetch(url, net) ==
    \E dl \in {download_lazy(fs, url, CacheDir, net, now)} :
        /\ fs' = dl.fs
        /\ last' = call_record("fetch", url, FALSE, Empty,
                               [ret |-> dl.path, exc |-> "", dl |-> dl, ex |-> NoExtract],
                               fs, dl.fs)
        /\ completed' = count(dl, url)
        /\ UNCHANGED <<now, nvars, pvars, rvars>>

\* extract_lazy(archive, member, cache_dir)
Extract(archive, member) ==
    \E ex \in {extract_lazy(fs, archive, member, CacheDir, now)} :
        /\ fs' = ex.fs
        /\ last' = call_record("extract", archive, TRUE, member,
                               [ret |-> ex.path, exc |-> ex.exc, dl |-> NoFetch, ex |-> ex],
                               fs, ex.fs)
        /\ UNCHANGED <<now, completed, nvars, pvars, rvars>>

\* SourcesAdmin.handle_path(path, verbose)
Resolve(path, net) ==
    \* a transfer outcome is drawn only for a remote specification
    /\ is_remote(path) \/ net = "ok"
    /\ \E r \in {handle_path(fs, path, CacheDir, net, now)} :
           /\ fs' = r.fs
           /\ last' = call_record("resolve", path.file, is_archive(path),
                                  IF is_archive(path) THEN path.extract ELSE Empty,
                                  r, fs, r.fs)
           /\ completed' = count(r.dl, path.file)
           /\ UNCHANGED <<now, nvars, pvars, rvars>>

\* SourcesAdmin.convert_paths_format(paths, local) on an admin whose
\* sources_dir is dir.
Normalize(paths, local, dir) ==
    /\ ncalls = 0
    /\ npaths' = paths
    /\ nlocal' = local
    /\ ndir' = dir
    /\ nafter' = mutated(paths, local, dir)
    /\ nresult' = convert_paths_format(paths, local, dir)
    /\ ncalls' = 1
    /\ UNCHANGED <<cvars, pvars, rvars, nsecond>>

\* The dicts of a tuple or list after they went through the second loop once
\* more: the loop assigns path['file'] in place.
reanchored(paths, local, sources_dir) ==
    IF paths.kind \in {"tuple", "list"}
    THEN [paths EXCEPT !.list = convert_list(paths.list, local, sources_dir)]
    ELSE IF paths.kind = "dict"
    THEN OnePath(anchor(paths.item, local, sources_dir))
    ELSE paths

\* A second call of convert_paths_format on the same admin with the same
\* local: on the tuple the first call returned (of = "result") or on the
\* argument object of the first call (of = "raw").  The dicts of the first
\* result are the dicts of a raw list or dict, so they change with them.
NormalizeAgain(of) ==
    /\ ncalls = 1
    /\ nsecond' = [of |-> of, first |-> nresult,
                   result |-> convert_paths_format(IF of = "result" THEN nresult ELSE nafter,
                                                   nlocal, ndir)]
    /\ nafter' = reanchored(nafter, nlocal, ndir)
    /\ nresult' = IF of = "result" \/ npaths.kind \in {"list", "dict"}
                  THEN reanchored(nresult, nlocal, ndir)
                  ELSE nresult
    /\ ncalls' = 2
    /\ UNCHANGED <<cvars, pvars, rvars, npaths, nlocal, ndir>>

\* Sequences of download_lazy calls on one cache directory.
NextFetch ==
    \/ Tick
    \/ \E url \in Urls, net \in NetOutcomes : Fetch(url, net)

SpecFetch == Init /\ [][NextFetch]_vars

\* Sequences of extract_lazy calls on one cache directory, the local archive
\* being modified in between.
NextExtract ==
    \/ Tick
    \/ Touch
    \/ \E archive \in Archives, member \in Members : Extract(archive, member)

SpecExtract == Init /\ [][NextExtract]_vars

\* Sequences of handle_path calls.
Next ==
    \/ Tick
    \/ \E path \in Specs, net \in NetOutcomes : Resolve(path, net)

Spec == Init /\ [][Next]_vars

\* Calls of convert_paths_format on every input shape.
NextNormalize ==
    \E paths \in RawPaths, local \in BOOLEAN, dir \in SourcesDirs :
        Normalize(paths, local, dir)

SpecNormalize == Init /\ [][NextNormalize]_vars

\* convert_paths_format called a second time, on its result or its argument.
NextNormalizeTwice ==
    \/ \E paths \in RawPaths, local \in BOOLEAN, dir \in SourcesDirs :
           Normalize(paths, local, dir)
    \/ \E of \in {"result", "raw"} : NormalizeAgain(of)

SpecNormalizeTwice == Init /\ [][NextNormalizeTwice]_vars

\* A second local archive with the same member names as L1.
L3 == <<"/", "d", "/", "b", ".", "z">>

\* The owner of the sources directory puts the second archive there.
Install ==
    /\ ~exists(fs, L3)
    /\ fs' = put(fs, L3, FileEntry(Data(L3, Empty, FALSE), now))
    /\ UNCHANGED <<now, last, completed, nvars, pvars, rvars>>

\* Sequences of extract_lazy calls that take members, present or not, from
\* two archives into one cache directory.
NextArchives ==
    \/ Tick
    \/ Install
    \/ \E archive \in {L1, L3}, member \in {M_c, M_x} : Extract(archive, member)

SpecArchives == Init /\ [][NextArchives]_vars

\* ---------------------------------------------------------- source registry

\* The names, options and option values the registry is called with.
SourceNames == {"s1", "s2"}

Options == {"paths", "local"}

OptionValues == {"v1", "v2"}

\* A configuration is None (an empty entry of the YAML file) or a dict of
\* options.
DictConfig(opts) == [none |-> FALSE, opts |-> opts]

Configs ==
    {NoConfig} \cup {DictConfig(o) : o \in UNION {[d -> OptionValues] : d \in SUBSET Options}}

\* Mutant: add assigns whether the name exists or not.
add_result_overwrite(srcs, source, config) ==
    [sources |-> put(srcs, source, config), exc |-> ""]

\* SourcesAdmin.add(source, config) on the registry srcs.
add_result(srcs, source, config) ==
    IF source \in DOMAIN srcs
    THEN [sources |-> srcs, exc |-> ""]
    ELSE [sources |-> put(srcs, source, config), exc |-> ""]

\* SourcesAdmin.update(source, option, option_config): assigning an option of
\* a None configuration raises TypeError.
update_result(srcs, source, option, option_config) ==
    IF source \notin DOMAIN srcs
    THEN [sources |-> srcs, exc |-> ""]
    ELSE IF srcs[source].none
    THEN [sources |-> srcs, exc |-> "TypeError"]
    ELSE [sources |-> [srcs EXCEPT ![source].opts = put(@, option, option_config)],
          exc |-> ""]

\* SourcesAdmin.drop(source): del raises KeyError for an unknown name.
drop_result(srcs, source) ==
    IF source \notin DOMAIN srcs
    THEN [sources |-> srcs, exc |-> "KeyError"]
    ELSE [sources |-> [n \in DOMAIN srcs \ {source} |-> srcs[n]], exc |-> ""]

\* The call op(source, config) took the registry to r.sources.
registry_call(op, source, config, r) ==
    /\ sources' = r.sources
    /\ rlast' = [op |-> op, source |-> source, config |-> config,
                 before |-> sources, exc |-> r.exc]
    /\ UNCHANGED <<cvars, nvars, pvars>>

Add(source, config) ==
    registry_call("add", source, config, add_result(sources, source, config))

Update(source, option, option_config) ==
    registry_call("update", source, DictConfig([o \in {option} |-> option_config]),
                  update_result(sources, source, option, option_config))

Drop(source) ==
    registry_call("drop", source, NoConfig, drop_result(sources, source))

\* Sequences of calls on the registry of one SourcesAdmin.
NextRegistry ==
    \/ \E source \in SourceNames, config \in Configs : Add(source, config)
    \/ \E source \in SourceNames, option \in Options, value \in OptionValues :
           Update(source, option, value)
    \/ \E source \in SourceNames : Drop(source)

SpecRegistry == Init /\ [][NextRegistry]_vars

\* ------------------------------------------- concurrent handle_path calls

\* The specifications resolved concurrently: a download, a member of the
\* downloaded archive, and members of the local archive, flat, in
\* subdirectories and missing.
ParSpecs ==
    { [file |-> U1],
      [file |-> U1, extract |-> M_c],
      [file |-> L1, extract |-> M_x],
      [file |-> L1, extract |-> M_c],
      [file |-> L1, extract |-> M_sc],
      [file |-> L1, extract |-> M_ssc] }

\* The cache paths a specification is tested against: filename_test of
\* download_lazy and filename_test of extract_lazy.
cache_targets(path, cache_dir) ==
    (IF is_remote(path) THEN {join(cache_dir, basename(path.file))} ELSE {})
    \cup (IF is_archive(path) THEN {join(cache_dir, path.extract)} ELSE {})

\* filename_test of download_lazy and of extract_lazy in call i, and the path
\* ZipFile.extract writes.
p_dl_target(i) == join(CacheDir, basename(pspec[i].file))

p_ex_target(i) == join(CacheDir, pspec[i].extract)

p_targetpath(i) == normpath(join(extract_dir(p_ex_target(i)), pspec[i].extract))

\* Mutant: every specification enters download_lazy.
p_entry_always_remote(path) == "dl_test"

\* The first branch of handle_path: the position a call goes to from its start.
p_entry(path) == IF is_remote(path) THEN "dl_test" ELSE "local"

\* The stage of handle_path a position belongs to: 0 before any stage, 1 in
\* download_lazy, 2 in extract_lazy, 3 once handle_path has returned or raised.
stage(q) ==
    CASE q \in {"idle", "start"} -> 0
      [] q \in {"dl_test", "retrieve", "write"} -> 1
      [] q \in {"ex_test", "ex_stat", "zip", "dirs", "mkdir", "copy"} -> 2
      [] q = "done" -> 3

\* Call i moves to position q with working file file_, having returned or
\* raised r, and leaves the file system g.
p_goto(i, q, file_, r, g) ==
    /\ pc' = [pc EXCEPT ![i] = q]
    /\ pfile' = [pfile EXCEPT ![i] = file_]
    /\ pret' = [pret EXCEPT ![i] = r]
    /\ fs' = g
    /\ UNCHANGED <<now, last, completed, pspec, pnet, nvars, rvars>>

\* handle_path from "if is_archive(path)" on, in call i.
p_route(i, file_, g) ==
    IF is_archive(pspec[i])
    THEN p_goto(i, "ex_test", file_, NoReturn, g)
    ELSE p_goto(i, "done", file_, [ret |-> file_, exc |-> ""], g)

\* Two handle_path calls are started on specifications with distinct cache
\* targets.
PStart(a, b, na, nb) ==
    /\ \A i \in Procs : pc[i] = "idle"
    /\ cache_targets(a, CacheDir) \cap cache_targets(b, CacheDir) = {}
    /\ is_remote(a) \/ na = "ok"
    /\ is_remote(b) \/ nb = "ok"
    /\ pspec' = [i \in Procs |-> IF i = 1 THEN a ELSE b]
    /\ pnet' = [i \in Procs |-> IF i = 1 THEN na ELSE nb]
    /\ pc' = [i \in Procs |-> "start"]
    /\ UNCHANGED <<cvars, nvars, rvars, pfile, pret>>

\* The clock runs before the calls start.
PTick ==
    /\ \A i \in Procs : pc[i] = "idle"
    /\ Tick

\* handle_path: "if not is_remote(path)"; a remote specification enters
\* download_lazy, a local one goes on with its own file.
PClassify(i) ==
    /\ pc[i] = "start"
    /\ IF p_entry(pspec[i]) = "dl_test"
       THEN p_goto(i, "dl_test", None, NoReturn, fs)
       ELSE p_route(i, Some(pspec[i].file), fs)

\* The cache test of download_lazy: os.path.isfile(filename_test).
PTest(i) ==
    /\ pc[i] = "dl_test"
    /\ IF download_cached(fs, p_dl_target(i))
       THEN p_route(i, Some(p_dl_target(i)), fs)
       ELSE p_goto(i, "retrieve", None, NoReturn, fs)

\* urlretrieve opens the connection and then the target file, which is
\* created empty.
PRetrieve(i) ==
    /\ pc[i] = "retrieve"
    /\ IF pnet[i] = "refused" \/ ~can_open_wb(fs, p_dl_target(i))
       THEN p_goto(i, "done", None, NoReturn, fs)
       ELSE p_goto(i, "write", None, NoReturn,
                   write_file(fs, p_dl_target(i), Data(pspec[i].file, Empty, TRUE), now))

\* urlretrieve copies the blocks and closes the file, or the transfer breaks.
PWrite(i) ==
    /\ pc[i] = "write"
    /\ IF pnet[i] = "broken"
       THEN p_goto(i, "done", None, NoReturn, fs)
       ELSE p_route(i, Some(p_dl_target(i)),
                    write_file(fs, p_dl_target(i), Data(pspec[i].file, Empty, FALSE), now))

\* The cache test of extract_lazy: os.path.isfile(filename_test).
PExTest(i) ==
    /\ pc[i] = "ex_test"
    /\ IF isfile(fs, p_ex_target(i))
       THEN p_goto(i, "ex_stat", pfile[i], NoReturn, fs)
       ELSE p_goto(i, "zip", pfile[i], NoReturn, fs)

\* is_older(archive, filename_test)
PExStat(i) ==
    /\ pc[i] = "ex_stat"
    /\ IF is_older(fs, pfile[i].v, p_ex_target(i))
       THEN p_goto(i, "done", pfile[i], [ret |-> Some(p_ex_target(i)), exc |-> ""], fs)
       ELSE p_goto(i, "zip", pfile[i], NoReturn, fs)

\* ZipFile(archive) and getinfo(member): an IOError is caught by extract_lazy,
\* BadZipfile and KeyError escape.
PZip(i) ==
    /\ pc[i] = "zip"
    /\ \E zf \in {lookup(fs, pfile[i].v)} :
           IF zf.kind # "file" THEN p_goto(i, "done", pfile[i], NoReturn, fs)
           ELSE IF ~is_zipfile(zf.data)
           THEN p_goto(i, "done", pfile[i], [ret |-> None, exc |-> "BadZipfile"], fs)
           ELSE IF pspec[i].extract \notin ZipNames
           THEN p_goto(i, "done", pfile[i], [ret |-> None, exc |-> "KeyError"], fs)
           ELSE p_goto(i, "dirs", pfile[i], NoReturn, fs)

\* ZipFile._extract_member: os.path.exists(upperdirs).
PDirs(i) ==
    /\ pc[i] = "dirs"
    /\ \E upperdirs \in {dirname(p_targetpath(i))} :
           IF upperdirs # Empty /\ ~exists(fs, upperdirs)
           THEN p_goto(i, "mkdir", pfile[i], NoReturn, fs)
           ELSE p_goto(i, "copy", pfile[i], NoReturn, fs)

\* ZipFile._extract_member: os.makedirs(upperdirs) raises OSError when
\* upperdirs exists by now or a path on the way is a regular file.
PMkdir(i) ==
    /\ pc[i] = "mkdir"
    /\ \E upperdirs \in {dirname(p_targetpath(i))} :
           IF exists(fs, upperdirs) \/ makedirs_blocked(fs, upperdirs)
           THEN p_goto(i, "done", pfile[i], [ret |-> None, exc |-> "OSError"], fs)
           ELSE p_goto(i, "copy", pfile[i], NoReturn, makedirs(fs, upperdirs))

\* ZipFile._extract_member: the member is copied to targetpath.
PCopy(i) ==
    /\ pc[i] = "copy"
    /\ \E got \in {zip_copy(fs, lookup(fs, pfile[i].v), pspec[i].extract,
                            p_targetpath(i), now)} :
           p_goto(i, "done", pfile[i], [ret |-> got.path, exc |-> ""], got.fs)

\* One system call of call i.
PStep(i) ==
    \/ PClassify(i)
    \/ PTest(i)
    \/ PRetrieve(i)
    \/ PWrite(i)
    \/ PExTest(i)
    \/ PExStat(i)
    \/ PZip(i)
    \/ PDirs(i)
    \/ PMkdir(i)
    \/ PCopy(i)

\* Two handle_path calls whose system calls interleave in every order.
NextParallel ==
    \/ PTick
    \/ \E a \in ParSpecs, b \in ParSpecs, na \in NetOutcomes, nb \in NetOutcomes :
           PStart(a, b, na, nb)
    \/ \E i \in Procs : PStep(i)

SpecParallel == Init /\ [][NextParallel]_vars

\* The files and directories below the cache directory.
cache_of(f) == [p \in {q \in DOMAIN f : startswith(q, CacheDir)} |-> f[p]]

\* What two calls leave behind: the result of each and the cache directory.
outcome(r1, r2, f) == [r1 |-> r1, r2 |-> r2, cache |-> cache_of(f)]

\* handle_path(a) and then handle_path(b), one after the other, from the file
\* system f at time t; x is the result of the first.
both_results(x, y) ==
    [first |-> [ret |-> x.ret, exc |-> x.exc],
     second |-> [ret |-> y.ret, exc |-> y.exc],
     fs |-> y.fs]

then_second(x, b, nb, t) == both_results(x, handle_path(x.fs, b, CacheDir, nb, t))

one_after_the_other(f, a, na, b, nb, t) ==
    then_second(handle_path(f, a, CacheDir, na, t), b, nb, t)

\* ================================================================== claims

\* ---- C1 (download_lazy)

\* C1, as claimed: whenever download_lazy is called twice in a row with the
\* same resource and cache directory, the second call is a pure cache hit: it
\* performs no transfer, returns the path the first call returned and leaves
\* the file system unchanged.
C1_SecondFetchIsHit ==
    (last.op = "fetch" /\ last.rep)
        => (~last.dl.transfer /\ last.ret = last.p_ret /\ last.touched = {})

\* C1, amended: at most one transfer completes per resource basename; and
\* once download_lazy has succeeded for a resource, a second call with the same
\* resource and cache directory performs no transfer, returns the identical
\* path and leaves the file system unchanged.  (After a failed call the next
\* call may transfer again.)
C1_FetchOnce ==
    /\ \A b \in Basenames : completed[b] <= 1
    /\ (last.op = "fetch" /\ last.rep /\ last.p_ok)
           => (~last.dl.transfer /\ last.ret.some /\ last.ret = last.p_ret
               /\ last.touched = {})

\* C1 witness: a download followed by the same call, which was a cache hit.
C1_Witness ==
    /\ last.op = "fetch" /\ last.rep /\ last.p_ok /\ last.p_transfer
    /\ ~last.dl.transfer
    /\ last.ret = Some(CachedZip)
    /\ completed[basename(U1)] = 1

\* ---- C2 (extract_lazy, is_older)

\* C2, as claimed, at the most favourable modification time: whenever
\* extract_lazy is called twice in a row with the same archive, member and
\* cache directory, the archive unchanged in between, and the first call
\* extracted the member and left its file newer than the archive, the second
\* call performs no extraction.  (For every member name, flat or not.)
C2_SecondExtractIsHit ==
    (last.op = "extract" /\ last.rep /\ last.unchanged
     /\ last.p_extracted /\ last.p_ok /\ last.p_newer)
        => ~last.ex.extracted

\* ---- C3 (extract_lazy)

\* C3, as claimed: when extract_lazy finds a file at join(cache_dir, member),
\* it extracts again if the archive's modification time is later than that
\* file's, and an extraction that succeeds has refreshed that file; and it
\* returns that path without any extraction, changing nothing, if the
\* archive's modification time is earlier.
C3_Staleness ==
    last.op = "extract" =>
        /\ last.pre = "newer"
               => /\ last.ex.extracted
                  /\ last.ex.success
                         => /\ last.ex.path = Some(last.ex.target)
                            /\ last.ex.target \in last.touched
        /\ last.pre = "older"
               => /\ ~last.ex.extracted
                  /\ last.ex.success
                  /\ last.ex.path = Some(last.ex.target)
                  /\ last.touched = {}

\* ---- C4 (extract_lazy)

\* C4, as claimed: for every member name, an extraction that succeeds has
\* written the member at join(cache_dir, member) and returns that path.
C4_ExtractsAtTarget ==
    (last.op = "extract" /\ last.ex.extracted /\ last.ex.success)
        => /\ last.ex.target = join(CacheDir, last.extract)
           /\ last.ex.path = Some(last.ex.target)
           /\ isfile(fs, last.ex.target)
           /\ fs[last.ex.target].data.mem = last.extract

\* ---- C5 (extract_lazy, handle_path)

\* C5, as claimed: no exception escapes the extraction stage of handle_path;
\* whenever the extraction does not succeed, extract_lazy has returned
\* (None, False) and handle_path returns None.
C5_ExtractFailureIsOutcome ==
    (last.op = "resolve" /\ last.ex.called)
        => /\ last.exc = "" /\ last.ex.exc = ""
           /\ ~last.ex.success => (last.ex.path = None /\ last.ret = None)

\* ---- C6 (handle_path, download_lazy)

\* C6: when download_lazy fails inside handle_path, it has returned
\* (None, False), handle_path returns None and raises nothing, extract_lazy is
\* not called even when the specification has an extract member, and nothing
\* but the download target itself is changed in the file system.
C6_FailedFetchStops ==
    (last.op = "resolve" /\ last.dl.called /\ ~last.dl.success)
        => /\ last.dl.path = None
           /\ last.ret = None /\ last.exc = ""
           /\ ~last.ex.called /\ ~last.ex.extracted
           /\ last.touched \subseteq {last.dl.target}

\* C6 witness: a specification with an extract member whose transfer broke,
\* leaving a partial file and no extraction.
C6_Witness ==
    /\ last.op = "resolve" /\ last.file = U1 /\ last.hasx /\ last.extract = M_c
    /\ last.dl.called /\ last.dl.transfer /\ ~last.dl.success
    /\ last.ret = None
    /\ last.touched = {CachedZip}
    /\ ~exists(fs, join(CacheDir, M_c))

\* ---- C7 (handle_path)

\* C7: for a local specification without an extract key, handle_path returns
\* the file of the specification unchanged, calls neither download_lazy nor
\* extract_lazy, and changes nothing in the file system.
C7_LocalPlainIsIdentity ==
    (last.op = "resolve" /\ last.file \in {L1, L2} /\ ~last.hasx)
        => /\ last.ret = Some(last.file) /\ last.exc = ""
           /\ ~last.dl.called /\ ~last.dl.transfer
           /\ ~last.ex.called /\ ~last.ex.extracted
           /\ last.touched = {}

\* C7 witness: the call on a local file that does not exist, made after the
\* cache was filled by another call.
C7_Witness ==
    /\ last.op = "resolve" /\ last.file = L2 /\ ~last.hasx
    /\ last.ret = Some(L2)
    /\ exists(fs, CachedZip)

\* ---- C8 (is_older, extract_lazy)

\* C8, as claimed: when the cached target exists and the archive cannot be
\* stat'ed, extract_lazy does not attempt an extraction.
C8_StatFailureNoReextract ==
    (last.op = "extract" /\ last.pre = "nostat") => ~last.ex.extracted

\* C8, amended: when the cached target exists and the archive cannot be
\* stat'ed, is_older is false and extract_lazy takes the cached file for stale:
\* it attempts the extraction, which fails on the archive that cannot be
\* opened; the failure is returned as (None, False), nothing is raised and the
\* cached file is left as it was.
C8_StatFailureReextracts ==
    (last.op = "extract" /\ last.pre = "nostat")
        => /\ last.ex.extracted
           /\ ~last.ex.success /\ last.ex.path = None /\ last.exc = ""
           /\ last.touched = {}
           /\ isfile(fs, last.ex.target)

\* C8 witness: the member cached from L1 is asked from the archive L2, which
\* does not exist.
C8_Witness ==
    /\ last.op = "extract" /\ last.file = L2 /\ last.extract = M_c
    /\ last.pre = "nostat"
    /\ ~exists(fs, L2)
    /\ isfile(fs, join(CacheDir, M_c))

\* ---- C9 (convert_paths_format)

\* C9, as claimed: None yields None; any other input yields a tuple as long
\* as the input (one element for a single string or dict) whose i-th element
\* is the specification of the i-th input element: {file: s} for a string s,
\* the dict itself, with its file and extract, for a dict.
C9_ElementwiseSpecs ==
    ncalls = 1 =>
        LET inp == IF npaths.kind = "list" THEN npaths.list ELSE <<npaths.item>>
        IN  IF npaths.kind = "none" THEN nresult = NonePaths
            ELSE /\ nresult.kind = "tuple"
                 /\ Len(nresult.list) = Len(inp)
                 /\ \A i \in 1..Len(inp) :
                        nresult.list[i] =
                            IF "str" \in DOMAIN inp[i]
                            THEN [file |-> inp[i].str] ELSE inp[i]

\* C9, amended: as claimed, except that with local true the file of an
\* element that is not a URL is the path anchored at the sources directory
\* (C10); the length, the order, the keys and the extract are as claimed.
C9_ElementwiseSpecsAnchored ==
    ncalls = 1 =>
        LET inp == IF npaths.kind = "list" THEN npaths.list ELSE <<npaths.item>>
        IN  IF npaths.kind = "none" THEN nresult = NonePaths
            ELSE /\ nresult.kind = "tuple"
                 /\ Len(nresult.list) = Len(inp)
                 /\ \A i \in 1..Len(inp) :
                        LET want == IF "str" \in DOMAIN inp[i]
                                    THEN [file |-> inp[i].str] ELSE inp[i]
                            got == nresult.list[i]
                        IN  /\ DOMAIN got = DOMAIN want
                            /\ "extract" \in DOMAIN want => got.extract = want.extract
                            /\ got.file =
                                   IF nlocal /\ want.file \notin {U1, U2}
                                   THEN join(realpath(ndir), want.file)
                                   ELSE want.file

\* C9 witness: a list of a dict and a string, in that order, and a single
\* string, each converted with local true.
C9_Witness ==
    /\ ncalls = 1 /\ nlocal /\ ndir = <<"/", "d">>
    /\ \/ /\ npaths = ListPaths(<<[file |-> U1, extract |-> M_c], [str |-> F_rel]>>)
          /\ nresult = TuplePaths(<<[file |-> U1, extract |-> M_c],
                                    [file |-> <<"/", "d", "/", "a">>]>>)
       \/ /\ npaths = OnePath([str |-> F_abs])
          /\ nresult = TuplePaths(<<[file |-> F_abs]>>)

\* ---- C10 (convert_paths_format, is_remote)

\* C10: with local true, the file of every element that is not a URL is
\* join(realpath(sources_dir), file) and the file of a URL (http:// or
\* https://, in any case) is kept; with local false every file is kept.
C10_Anchoring ==
    (ncalls = 1 /\ npaths.kind # "none") =>
        LET inp == IF npaths.kind = "list" THEN npaths.list ELSE <<npaths.item>>
        IN  \A i \in 1..Len(inp) :
                LET orig == IF "str" \in DOMAIN inp[i]
                            THEN inp[i].str ELSE inp[i].file
                IN  nresult.list[i].file =
                        IF nlocal /\ orig \notin {U1, U2}
                        THEN join(realpath(ndir), orig)
                        ELSE orig

\* C10 witness: with local true and a relative sources directory, a relative
\* file is anchored at the canonical directory and an upper-case URL is kept.
C10_Witness ==
    /\ ncalls = 1 /\ nlocal /\ ndir = <<"d">>
    /\ npaths = ListPaths(<<[str |-> F_rel], [file |-> U2, extract |-> M_c]>>)
    /\ nresult = TuplePaths(<<[file |-> <<"/", "w", "/", "d", "/", "a">>],
                              [file |-> U2, extract |-> M_c]>>)

\* ---- C11 (handle_path, download_lazy, extract_lazy)

\* C11, as claimed: whenever handle_path returns a path, that path is a file
\* that exists when handle_path returns.
C11_ReturnedPathExists ==
    (last.op = "resolve" /\ last.ret.some) => isfile(fs, last.ret.v)

\* C11, amended: whenever handle_path returns a path that came out of
\* download_lazy or extract_lazy, that path is a file that exists when
\* handle_path returns; for a local specification without an extract member
\* the path returned is the file of the specification, whether it exists or not.
C11_StagedPathExists ==
    (last.op = "resolve" /\ last.ret.some) =>
        IF last.dl.called \/ last.ex.called
        THEN isfile(fs, last.ret.v)
        ELSE last.ret = Some(last.file)

\* C11 witness: a remote archive was downloaded and a member extracted from
\* it; the path returned is the extracted file.
C11_Witness ==
    /\ last.op = "resolve" /\ last.file = U1 /\ last.extract = M_c
    /\ last.dl.called /\ last.dl.transfer /\ last.ex.called /\ last.ex.extracted
    /\ last.ret = Some(join(CacheDir, M_c))
    /\ isfile(fs, join(CacheDir, M_c))
    /\ fs[join(CacheDir, M_c)].data = Data(U1, M_c, FALSE)

\* ---- C12 (handle_path, download_lazy, extract_lazy)

\* C12, as claimed: when two handle_path calls on specifications with distinct
\* cache targets have run with their system calls interleaved, what each
\* returned and what the cache directory holds are what running the two calls
\* one after the other, in one order or the other, gives.
C12_ParallelAsSequential ==
    (\A i \in Procs : pc[i] = "done") =>
        \E s12 \in {one_after_the_other(InitFs, pspec[1], pnet[1], pspec[2], pnet[2], now)},
           s21 \in {one_after_the_other(InitFs, pspec[2], pnet[2], pspec[1], pnet[1], now)} :
            \/ outcome(pret[1], pret[2], fs) = outcome(s12.first, s12.second, s12.fs)
            \/ outcome(pret[1], pret[2], fs) = outcome(s21.second, s21.first, s21.fs)

\* ---- C13 (extract_lazy, is_older)

\* C13, as claimed: when extract_lazy finds a file at join(cache_dir, member)
\* whose modification time is that of the archive, it does not return it as a
\* hit: it extracts again, and an extraction that succeeds has overwritten
\* that file with the member and returns its path.
C13_EqualTimesReextract ==
    (last.op = "extract" /\ last.pre = "same")
        => /\ last.ex.extracted
           /\ last.ex.success
                  => /\ last.ex.path = Some(last.ex.target)
                     /\ fs[last.ex.target].data.mem = last.extract

\* ---- C14 (handle_path)

\* C14: every step of a handle_path call moves forward through the stages
\* start, download_lazy, extract_lazy, returned, so that no stage is entered
\* twice and none after the call has ended; download_lazy is entered from the
\* start and only for a remote specification; extract_lazy is entered only for
\* a specification with an extract member, for a local specification from the
\* start with the file of the specification as archive, for a remote one from
\* download_lazy with the existing file it returned as archive; a call that
\* ends in download_lazy has failed and returns None, or has no extract
\* member and returns the downloaded file.
C14_StageOrder ==
    [][\A i \in Procs :
          pc'[i] # pc[i] =>
              /\ stage(pc'[i]) >= stage(pc[i])
              /\ (stage(pc'[i]) = 1 /\ stage(pc[i]) # 1)
                     => (stage(pc[i]) = 0 /\ is_remote(pspec'[i]))
              /\ (stage(pc'[i]) = 2 /\ stage(pc[i]) # 2)
                     => /\ is_archive(pspec'[i])
                        /\ IF is_remote(pspec'[i])
                           THEN /\ stage(pc[i]) = 1
                                /\ pfile'[i] = Some(p_dl_target(i))
                                /\ isfile(fs', p_dl_target(i))
                           ELSE /\ stage(pc[i]) = 0
                                /\ pfile'[i] = Some(pspec'[i].file)
              /\ (stage(pc'[i]) = 3 /\ stage(pc[i]) = 1)
                     => \/ pret'[i] = NoReturn
                        \/ /\ ~is_archive(pspec'[i])
                           /\ pret'[i] = [ret |-> Some(p_dl_target(i)), exc |-> ""]
              /\ (stage(pc'[i]) = 3 /\ stage(pc[i]) = 0)
                     => /\ ~is_remote(pspec'[i]) /\ ~is_archive(pspec'[i])
                        /\ pret'[i] = [ret |-> Some(pspec'[i].file), exc |-> ""]
      ]_vars

\* C14 witness: a call on a member of a remote archive has gone through both
\* stages and returned the extracted file, next to a call whose download
\* failed and which returned None without extracting.
C14_Witness ==
    /\ pc[1] = "done" /\ pspec[1] = [file |-> U1, extract |-> M_c]
    /\ pfile[1] = Some(CachedZip)
    /\ pret[1] = [ret |-> Some(join(CacheDir, M_c)), exc |-> ""]
    /\ fs[join(CacheDir, M_c)].data = Data(U1, M_c, FALSE)
    /\ pc[2] = "done" /\ pspec[2] = [file |-> L1, extract |-> M_x]
    /\ pret[2] = [ret |-> None, exc |-> "KeyError"]

\* ---- C15 (download_lazy)

\* C15, as claimed: whenever download_lazy reports success, the file at the
\* path it returns is the complete copy left by a transfer that finished; and
\* a call that repeats a failed call performs the transfer again.
C15_FailedFetchLeavesNoHit ==
    last.op = "fetch" =>
        /\ last.dl.success
               => /\ last.ret.some
                  /\ isfile(fs, last.ret.v)
                  /\ ~lookup(fs, last.ret.v).data.part
        /\ (last.rep /\ ~last.p_ok) => last.dl.transfer

\* ---- C16 (download_lazy, extract_lazy)

\* C16, as claimed: whenever download_lazy(url) reports success, the file at
\* the path it returns was copied from that url, and is no member extracted
\* from an archive.
C16_FetchedFromSameUrl ==
    (last.op = "fetch" /\ last.dl.success)
        => /\ last.ret.some
           /\ lookup(fs, last.ret.v).data.src = last.file
           /\ lookup(fs, last.ret.v).data.mem = Empty

\* ---- C17 (extract_lazy, is_older)

\* C17, as claimed: whenever extract_lazy(archive, member) reports success,
\* the file at the path it returns holds that member of that archive.
C17_ExtractedFromSameArchive ==
    (last.op = "extract" /\ last.ex.success)
        => /\ last.ret.some
           /\ lookup(fs, last.ret.v).data
                  = Data(lookup(fs, last.file).data.src, last.extract, FALSE)

\* ---- C18 (convert_paths_format)

\* C18: a second call of convert_paths_format with the same local, on the
\* tuple the first call returned or on the argument object of the first call,
\* returns what the first call returned, and leaves the specifications of the
\* first result as they were: an anchored file is absolute, and joining the
\* sources directory with it once more gives the same file.
C18_NormalizeTwice ==
    ncalls = 2 =>
        /\ nsecond.result = nsecond.first
        /\ nresult = nsecond.first

\* C18 witness: a list with a relative file, a URL and an absolute file was
\* converted with local true and a relative sources directory, and converted
\* again in place.
C18_Witness ==
    /\ ncalls = 2 /\ nlocal /\ ndir = <<"d">>
    /\ nsecond.of \in {"result", "raw"}
    /\ \E x \in {F_abs, U1} :
           /\ npaths = ListPaths(<<[str |-> F_rel], [file |-> x, extract |-> M_c]>>)
           /\ nsecond.result = TuplePaths(<<[file |-> <<"/", "w", "/", "d", "/", "a">>],
                                            [file |-> x, extract |-> M_c]>>)

\* ---- C19 (add, update)

\* C19: add for a name that is in the registry and update for a name that is
\* not in the registry raise nothing and leave the registry as it was: every
\* name keeps its configuration and no name is added.
C19_RejectedCallsChangeNothing ==
    /\ (rlast.op = "add" /\ rlast.source \in DOMAIN rlast.before)
           => (sources = rlast.before /\ rlast.exc = "")
    /\ (rlast.op = "update" /\ rlast.source \notin DOMAIN rlast.before)
           => (sources = rlast.before /\ rlast.exc = "")

\* C19 witness: add with another configuration for a name that exists, and
\* update for a name that does not exist in a registry that has another name.
C19_Witness ==
    \/ /\ rlast.op = "add" /\ rlast.source = "s1"
       /\ "s1" \in DOMAIN rlast.before
       /\ rlast.before["s1"] = DictConfig([o \in {"paths"} |-> "v1"])
       /\ rlast.config = DictConfig([o \in {"paths"} |-> "v2"])
       /\ sources["s1"] = DictConfig([o \in {"paths"} |-> "v1"])
    \/ /\ rlast.op = "update" /\ rlast.source = "s2"
       /\ DOMAIN rlast.before = {"s1"}
       /\ DOMAIN sources = {"s1"}

=============================================================================
